---- MODULE Spec2Model ----
(***************************************************************************)
(* Model of qutebrowser's ModeManager (keyinput/modes.py): the handler     *)
(* registry, the mode stack, enter/leave and the key event filter; and of  *)
(* the part of Application (app.py) that drives it at start-up and that    *)
(* keeps the books of a shutdown (_quit_status, _shutting_down).           *)
(*                                                                         *)
(* Events: an event object is an opaque value of Events; what the code     *)
(* compares with `in` and `!=` is that value, and evt.type() is a separate *)
(* input of eventFilter. The window system decides which object it hands   *)
(* over for a release; a release "matches" a press when the two compare    *)
(* equal, which is what the code relies on.                                *)
(*                                                                         *)
(* Handlers are callables that live outside the modelled files: a call     *)
(* returns either boolean and may itself enter or leave a mode.            *)
(*                                                                         *)
(* self.passthrough is a list that is only ever appended to and tested     *)
(* with `in`; it is kept as the set of its elements. The configuration     *)
(* changes the option and notifies on_config_changed in one step.          *)
(***************************************************************************)
EXTENDS Naturals, Sequences, FiniteSets

\* ---------------------------------------------------------------- bounds
\* Longest mode stack explored (the code has no limit).
MaxStack == 3
\* Longest _releaseevents_to_pass list explored (the code has no limit).
MaxPending == 2
\* Longest mode stack explored with the application's seven modes.
MaxAppStack == 2

\* The mode names used (a subset of the seven the application registers).
Modes == {"normal", "hint"}
\* Event objects.
Events == {"e1", "e2"}
\* Python's None: self.mode of an empty stack, and an unbound handler.
None == "None"
\* Values a mode can be registered with: no handler, or a callable.
HandlerValues == {None, "h1"}
\* evt.type(): the two key types and any other event type.
KeyPress == "KeyPress"
KeyRelease == "KeyRelease"
EventTypes == {KeyPress, KeyRelease, "Other"}
\* The class of obj: isinstance(obj, QWindow) or not.
QWindow == "QWindow"
Objects == {QWindow, "QWidget"}
\* (section, option) pairs of a configuration-change notification.
Sections == {"general", "colors"}
Options == {"forward_unbound_keys", "auto-save-config"}

VARIABLES
    _handlers,               \* dict: mode -> handler (function on the registered modes)
    passthrough,             \* modes registered with passthrough=True
    _mode_stack,             \* list of modes, active one last
    _releaseevents_to_pass,  \* list of forwarded press events
    _forward_unbound_keys,   \* cached setting
    config_value,            \* what config.get('general', 'forward_unbound_keys') returns
    emitted,                 \* signals emitted by the last call, in order
    last,                    \* the last call: its arguments and its outcome
    track,                   \* whether keyHist is recorded in this run (fixed at the start)
    keyHist,                 \* history: per event, how the press that took the key down ended
    fwdSince                 \* history: per event, a recorded press since its last matched release

vars == <<_handlers, passthrough, _mode_stack, _releaseevents_to_pass,
          _forward_unbound_keys, config_value, emitted, last, track, keyHist, fwdSince>>

\* ------------------------------------------------------------- helpers
\* x in seq
InList(x, seq) == \E i \in DOMAIN seq : seq[i] = x

\* list.remove(x): drop the first occurrence of x.
\* Mutant of ListRemove: the last occurrence is removed.
RECURSIVE ListRemoveLast(_, _)
ListRemoveLast(seq, x) ==
    IF seq = <<>> THEN <<>>
    ELSE IF seq[Len(seq)] = x THEN SubSeq(seq, 1, Len(seq) - 1)
    ELSE Append(ListRemoveLast(SubSeq(seq, 1, Len(seq) - 1), x), seq[Len(seq)])

RECURSIVE ListRemove(_, _)
ListRemove(seq, x) ==
    IF seq = <<>> THEN <<>>
    ELSE IF Head(seq) = x THEN Tail(seq)
    ELSE <<Head(seq)>> \o ListRemove(Tail(seq), x)

\* Mutant of RemoveAll: only the first occurrence is removed.
RemoveFirst(seq, x) == ListRemove(seq, x)

\* [e for e in seq if e != x]
RemoveAll(seq, x) == SelectSeq(seq, LAMBDA e : e # x)

\* The mode property of a given stack.
ModeOf(stack) == IF stack = <<>> THEN None ELSE stack[Len(stack)]

\* The mode property.
mode == ModeOf(_mode_stack)

\* The record kept of a call.
Call(op, m, exc, obj, evt, typ, ret, handled, invoked) ==
    [op |-> op, mode |-> m, exc |-> exc, obj |-> obj, evt |-> evt, typ |-> typ,
     ret |-> ret, handled |-> handled, invoked |-> invoked,
     handler |-> "-", pt |-> FALSE, section |-> "-", option |-> "-"]

\* A call of a mode operation (no event involved).
ModeCall(op, m, exc) == Call(op, m, exc, "-", "-", "-", FALSE, FALSE, "-")

\* A call on_config_changed(section, option).
ConfigCall(section, option) ==
    [ModeCall("on_config_changed", "-", "none")
        EXCEPT !.section = section, !.option = option]

\* A call register(m, handler, pt).
RegisterCall(m, handler, pt) ==
    [ModeCall("register", m, "none") EXCEPT !.handler = handler, !.pt = pt]

\* The outcome of a call: normal return, or the ValueError raised.
Returned == "none"
NoHandlerError == "ValueError: No handler for mode"
NotOnStackError == "ValueError: Mode not on mode stack!"
CantLeaveNormalError == "ValueError: Can't leave normal mode!"

\* {}
EmptyDict == [m \in {} |-> None]

\* ---------------------------------------------- the Application's state
\* The keys of _quit_status.
QuitSenders == {"crash", "tabs", "networkmanager", "main"}

VARIABLES
    app_pc,          \* how far __init__ has come (see the start-up steps below)
    registrations,   \* history: the modes _init_modes has registered, in order
    event_filter,    \* the object installed as the application's event filter
    connected,       \* lastWindowClosed is connected to shutdown
    _quit_status,    \* dict: sender -> bool
    _shutting_down,  \* shutdown() was entered before
    tabs_pending,    \* tabs.shutdown_complete is connected and not yet emitted
    nm_pending,      \* networkmanager.destroyed is connected and not yet emitted
    quit_calls,      \* history: the number of quit() calls
    shutdown_runs,   \* history: how often each part of shutdown()'s body ran
    last_app         \* the last call of an Application method

appvars == <<app_pc, registrations, event_filter, connected, _quit_status,
             _shutting_down, tabs_pending, nm_pending, quit_calls, shutdown_runs,
             last_app>>

allvars == <<vars, appvars>>

\* A call of an Application method: whether shutdown() was called in it and
\* how it ended ("early", "raised", "body" or "-"), the quit() calls that
\* _maybe_quit made in it, and whether _exception_hook called quit() itself.
AppCall(op, arg, shutdown, mq_quits, hook_quit) ==
    [op |-> op, arg |-> arg, shutdown |-> shutdown, mq_quits |-> mq_quits,
     hook_quit |-> hook_quit]

\* Application.__init__ up to sys.excepthook = self._exception_hook, and the
\* ModeManager not yet driven by it.
AppInit ==
    /\ app_pc = 0
    /\ registrations = <<>>
    /\ event_filter = None
    /\ connected = FALSE
    /\ _quit_status = [k \in QuitSenders |-> k = "crash"]
    /\ _shutting_down = FALSE
    /\ tabs_pending = FALSE
    /\ nm_pending = FALSE
    /\ quit_calls = 0
    /\ shutdown_runs = [saved |-> 0, tabs |-> 0, networkmanager |-> 0]
    /\ last_app = AppCall("__init__", "-", "-", 0, FALSE)

\* No Application method runs.
AppIdle == UNCHANGED appvars

\* ---------------------------------------------------------------- Init
Init ==
    /\ _handlers = EmptyDict
    /\ passthrough = {}
    /\ _mode_stack = <<>>
    /\ _releaseevents_to_pass = <<>>
    /\ config_value \in BOOLEAN
    /\ _forward_unbound_keys = config_value
    /\ emitted = <<>>
    /\ last = ModeCall("__init__", "-", Returned)
    /\ track = FALSE
    /\ keyHist = [e \in Events |-> "up"]
    /\ fwdSince = [e \in Events |-> FALSE]
    /\ AppInit

\* The same start, with the key history recorded.
InitPairing ==
    /\ _handlers = EmptyDict
    /\ passthrough = {}
    /\ _mode_stack = <<>>
    /\ _releaseevents_to_pass = <<>>
    /\ config_value \in BOOLEAN
    /\ _forward_unbound_keys = config_value
    /\ emitted = <<>>
    /\ last = ModeCall("__init__", "-", Returned)
    /\ track = TRUE
    /\ keyHist = [e \in Events |-> "up"]
    /\ fwdSince = [e \in Events |-> FALSE]
    /\ AppInit

\* Mutant of NoEvent: a call that is no event empties _releaseevents_to_pass.
NoEventClears ==
    /\ _releaseevents_to_pass' = <<>>
    /\ UNCHANGED <<track, keyHist, fwdSince>>

\* What the event variables do in a call that is no event.
NoEvent == UNCHANGED <<_releaseevents_to_pass, track, keyHist, fwdSince>>

\* ------------------------------------------------------------- register
\* self._handlers[mode] = handler
DictSet(d, k, v) == [x \in DOMAIN d \cup {k} |-> IF x = k THEN v ELSE d[x]]

Register(m, handler, pt) ==
    /\ _handlers' = DictSet(_handlers, m, handler)
    /\ passthrough' = IF pt THEN passthrough \cup {m} ELSE passthrough
    /\ emitted' = <<>>
    /\ last' = RegisterCall(m, handler, pt)
    /\ UNCHANGED <<_mode_stack, _forward_unbound_keys, config_value>>
    /\ NoEvent

\* ---------------------------------------------------------------- enter
\* Mutant of HasHandler: any registration at all is enough.
HasHandlerAny(m) == _handlers # EmptyDict

\* Mutant of HasHandler: the registry is not consulted.
HasHandlerAlways(m) == TRUE

\* mode in self._handlers
HasHandler(m) == m \in DOMAIN _handlers

\* Mutant of AlreadyTop: the bottom of the stack is compared, not the top.
AlreadyTopFirst(stack, m) == stack # <<>> /\ stack[1] = m

\* self._mode_stack and self._mode_stack[-1] == mode
AlreadyTop(stack, m) == stack # <<>> /\ stack[Len(stack)] = m

\* Mutant of EnterStack: the mode is inserted at the front.
EnterStackFront(stack, m) == IF AlreadyTop(stack, m) THEN stack ELSE <<m>> \o stack

\* The stack after a successful enter(m).
EnterStack(stack, m) == IF AlreadyTop(stack, m) THEN stack ELSE Append(stack, m)

\* Mutant of EnterSignals: entered is emitted for the no-op enter as well.
EnterSignalsAlways(stack, m) == << <<"entered", m>> >>

\* The signals a successful enter(m) emits.
EnterSignals(stack, m) == IF AlreadyTop(stack, m) THEN <<>> ELSE << <<"entered", m>> >>

Enter(m) ==
    /\ HasHandler(m) => Len(EnterStack(_mode_stack, m)) <= MaxStack
    /\ IF ~HasHandler(m)
       THEN /\ last' = ModeCall("enter", m, NoHandlerError)
            /\ emitted' = <<>>
            /\ UNCHANGED _mode_stack
       ELSE /\ _mode_stack' = EnterStack(_mode_stack, m)
            /\ emitted' = EnterSignals(_mode_stack, m)
            /\ last' = ModeCall("enter", m, Returned)
    /\ UNCHANGED <<_handlers, passthrough, _forward_unbound_keys, config_value>>
    /\ NoEvent

\* ---------------------------------------------------------------- leave
\* The outcome of self._mode_stack.remove(mode).
LeaveOutcome(stack, m) == IF InList(m, stack) THEN Returned ELSE NotOnStackError

\* Mutant of LeaveStack: the bottom of the stack is dropped (pop(0)).
LeaveStackPopFirst(stack, m) == IF InList(m, stack) THEN Tail(stack) ELSE stack

\* The stack after leave(m), whether it raised or not.
LeaveStack(stack, m) == IF InList(m, stack) THEN ListRemove(stack, m) ELSE stack

\* Mutant of LeaveSignals: left is emitted whether or not the mode was removed.
LeaveSignalsAlways(stack, m) == << <<"left", m>> >>

\* The signals leave(m) emits.
LeaveSignals(stack, m) == IF InList(m, stack) THEN << <<"left", m>> >> ELSE <<>>

Leave(m) ==
    /\ _mode_stack' = LeaveStack(_mode_stack, m)
    /\ emitted' = LeaveSignals(_mode_stack, m)
    /\ last' = ModeCall("leave", m, LeaveOutcome(_mode_stack, m))
    /\ UNCHANGED <<_handlers, passthrough, _forward_unbound_keys, config_value>>
    /\ NoEvent

\* Mutant of IsNormal: the guard tests for no mode instead of "normal".
IsNormalNone(m) == m = None

\* Mutant of IsNormal: leave_current_mode never refuses.
IsNormalNever(m) == FALSE

\* self.mode == "normal"
IsNormal(m) == m = "normal"

LeaveCurrentMode ==
    /\ IF IsNormal(mode)
       THEN /\ last' = ModeCall("leave_current_mode", mode, CantLeaveNormalError)
            /\ emitted' = <<>>
            /\ UNCHANGED _mode_stack
       ELSE /\ _mode_stack' = LeaveStack(_mode_stack, mode)
            /\ emitted' = LeaveSignals(_mode_stack, mode)
            /\ last' = ModeCall("leave_current_mode", mode, LeaveOutcome(_mode_stack, mode))
    /\ UNCHANGED <<_handlers, passthrough, _forward_unbound_keys, config_value>>
    /\ NoEvent

\* Mutant of MaybeLeaveOutcome: the ValueError of leave gets out.
MaybeLeaveOutcomeRaises(stack, m) == LeaveOutcome(stack, m)

\* try: leave(mode)  except ValueError: pass
MaybeLeaveOutcome(stack, m) == Returned

\* The module function maybe_leave: leave, with the ValueError swallowed.
MaybeLeave(m) ==
    /\ _mode_stack' = LeaveStack(_mode_stack, m)
    /\ emitted' = LeaveSignals(_mode_stack, m)
    /\ last' = ModeCall("maybe_leave", m, MaybeLeaveOutcome(_mode_stack, m))
    /\ UNCHANGED <<_handlers, passthrough, _forward_unbound_keys, config_value>>
    /\ NoEvent

\* ------------------------------------------------------- configuration
\* Mutant of OnConfigChanged: the notification is ignored and the value read
\* at construction is kept.
OnConfigChangedStale(section, option, b) ==
    /\ config_value' =
          IF <<section, option>> = <<"general", "forward_unbound_keys">>
          THEN b ELSE config_value
    /\ emitted' = <<>>
    /\ last' = ConfigCall(section, option)
    /\ UNCHANGED <<_handlers, passthrough, _mode_stack, _forward_unbound_keys>>
    /\ NoEvent

\* The configuration notifies a change of (section, option); b is the value the
\* forward_unbound_keys option holds after a change of that option.
OnConfigChanged(section, option, b) ==
    /\ config_value' =
          IF <<section, option>> = <<"general", "forward_unbound_keys">>
          THEN b ELSE config_value
    /\ _forward_unbound_keys' =
          IF <<section, option>> = <<"general", "forward_unbound_keys">>
          THEN config_value' ELSE _forward_unbound_keys
    /\ emitted' = <<>>
    /\ last' = ConfigCall(section, option)
    /\ UNCHANGED <<_handlers, passthrough, _mode_stack>>
    /\ NoEvent

\* ---------------------------------------------------------- eventFilter
\* What a handler may do to the mode stack while it runs: nothing, a
\* successful enter, or a successful leave.
HandlerEffects(stack) ==
    {<<"none", None>>}
    \cup {<<"enter", m>> : m \in {x \in DOMAIN _handlers :
                                   ~AlreadyTop(stack, x) /\ Len(stack) < MaxStack}}
    \cup {<<"leave", m>> : m \in {x \in Modes : InList(x, stack)}}

\* The stack after the handler's effect.
EffectStack(stack, eff) ==
    CASE eff[1] = "none" -> stack
      [] eff[1] = "enter" -> EnterStack(stack, eff[2])
      [] eff[1] = "leave" -> LeaveStack(stack, eff[2])

\* The signals the handler's effect emits.
EffectSignals(stack, eff) ==
    CASE eff[1] = "none" -> <<>>
      [] eff[1] = "enter" -> EnterSignals(stack, eff[2])
      [] eff[1] = "leave" -> LeaveSignals(stack, eff[2])

\* Mutant of FilterThis: an unhandled key is passed on only when the mode is
\* a passthrough mode and unbound keys are forwarded as well.
FilterThisBoth(handled, m) ==
    IF handled THEN TRUE
    ELSE IF m \in passthrough /\ _forward_unbound_keys THEN FALSE
    ELSE TRUE

\* filter_this of a key press: handled is the handler's answer, m is self.mode
\* as read when the decision is made.
FilterThis(handled, m) ==
    IF handled THEN TRUE
    ELSE IF m \in passthrough \/ _forward_unbound_keys THEN FALSE
    ELSE TRUE

\* typ in [QEvent.KeyPress, QEvent.KeyRelease]
IsKeyEvent(typ) == typ \in {KeyPress, KeyRelease}

\* Mutant of IsWindow: the isinstance check is missing.
IsWindowAlways(obj) == TRUE

\* isinstance(obj, QWindow)
IsWindow(obj) == obj = QWindow

\* History of the keys as the window system delivers them to a window:
\* "up" after a release, else how the press that took the key down ended
\* ("fwd": eventFilter returned False, "consumed": it returned True).
KeyDown(hist, evt, outcome) ==
    IF track /\ hist[evt] = "up" THEN [hist EXCEPT ![evt] = outcome] ELSE hist

KeyUp(hist, evt) == IF track THEN [hist EXCEPT ![evt] = "up"] ELSE hist

\* How a press ended, from its filter result.
Outcome(filter_this) == IF filter_this THEN "consumed" ELSE "fwd"

\* Mutant of EventFilterNoMode: key_pressed is emitted before the mode is looked at.
EventFilterNoModeEmits(obj, evt, typ) ==
    /\ mode = None
    /\ last' = Call("eventFilter", None, Returned, obj, evt, typ, FALSE, FALSE, "-")
    /\ emitted' = IF typ = KeyPress THEN << <<"key_pressed", evt>> >> ELSE <<>>
    /\ UNCHANGED <<_handlers, passthrough, _mode_stack, _releaseevents_to_pass,
                   _forward_unbound_keys, config_value, track, keyHist, fwdSince>>

\* self.mode is None: the event is passed through untouched.
EventFilterNoMode(obj, evt, typ) ==
    /\ mode = None
    /\ last' = Call("eventFilter", None, Returned, obj, evt, typ, FALSE, FALSE, "-")
    /\ emitted' = <<>>
    /\ keyHist' = IF IsWindow(obj) /\ IsKeyEvent(typ)
                  THEN IF typ = KeyPress THEN KeyDown(keyHist, evt, Outcome(FALSE))
                       ELSE KeyUp(keyHist, evt)
                  ELSE keyHist
    /\ UNCHANGED <<_handlers, passthrough, _mode_stack, _releaseevents_to_pass,
                   _forward_unbound_keys, config_value, track, fwdSince>>

\* Not a key event: passed through.
EventFilterNotKey(obj, evt, typ) ==
    /\ mode # None
    /\ ~IsKeyEvent(typ)
    /\ last' = Call("eventFilter", mode, Returned, obj, evt, typ, FALSE, FALSE, "-")
    /\ emitted' = <<>>
    /\ UNCHANGED <<_handlers, passthrough, _mode_stack, _releaseevents_to_pass,
                   _forward_unbound_keys, config_value, track, keyHist, fwdSince>>

\* A key event for an object that is no QWindow: passed through.
EventFilterNotWindow(obj, evt, typ) ==
    /\ mode # None
    /\ IsKeyEvent(typ)
    /\ ~IsWindow(obj)
    /\ last' = Call("eventFilter", mode, Returned, obj, evt, typ, FALSE, FALSE, "-")
    /\ emitted' = <<>>
    /\ UNCHANGED <<_handlers, passthrough, _mode_stack, _releaseevents_to_pass,
                   _forward_unbound_keys, config_value, track, keyHist, fwdSince>>

\* Mutant of PressSignals: key_pressed is emitted after the handler ran.
PressSignalsLate(evt, handler_signals) == handler_signals \o << <<"key_pressed", evt>> >>

\* self.key_pressed.emit(evt), then handler(evt) with whatever it emits.
PressSignals(evt, handler_signals) == << <<"key_pressed", evt>> >> \o handler_signals

\* A key press: key_pressed is emitted, the handler of the current mode is
\* called, and the press is filtered or recorded for its release.
EventFilterPress(obj, evt, typ) ==
    /\ mode # None
    /\ typ = KeyPress
    /\ IsWindow(obj)
    /\ LET handler == _handlers[mode] IN
       \E handled \in (IF handler = None THEN {FALSE} ELSE BOOLEAN),
          eff \in (IF handler = None THEN {<<"none", None>>}
                   ELSE HandlerEffects(_mode_stack)) :
          LET stack2 == EffectStack(_mode_stack, eff)
              filter_this == FilterThis(handled, ModeOf(stack2))
          IN /\ ~filter_this => Len(_releaseevents_to_pass) < MaxPending
             /\ _mode_stack' = stack2
             /\ emitted' = PressSignals(evt, EffectSignals(_mode_stack, eff))
             /\ _releaseevents_to_pass' =
                   IF ~filter_this THEN Append(_releaseevents_to_pass, evt)
                   ELSE _releaseevents_to_pass
             /\ last' = Call("eventFilter", mode, Returned, obj, evt, typ, filter_this,
                             handled, IF handler = None THEN "-" ELSE handler)
             /\ keyHist' = KeyDown(keyHist, evt, Outcome(filter_this))
             /\ fwdSince' = [fwdSince EXCEPT ![evt] = @ \/ ~filter_this]
    /\ UNCHANGED <<_handlers, passthrough, _forward_unbound_keys, config_value, track>>

\* A key release: passed through when the event is in _releaseevents_to_pass.
EventFilterRelease(obj, evt, typ) ==
    /\ mode # None
    /\ typ = KeyRelease
    /\ IsWindow(obj)
    /\ LET filter_this == ~InList(evt, _releaseevents_to_pass) IN
       /\ _releaseevents_to_pass' =
             IF InList(evt, _releaseevents_to_pass)
             THEN RemoveAll(_releaseevents_to_pass, evt)
             ELSE _releaseevents_to_pass
       /\ last' = Call("eventFilter", mode, Returned, obj, evt, typ, filter_this, FALSE, "-")
    /\ emitted' = <<>>
    /\ keyHist' = KeyUp(keyHist, evt)
    /\ fwdSince' = [fwdSince EXCEPT ![evt] = FALSE]
    /\ UNCHANGED <<_handlers, passthrough, _mode_stack, _forward_unbound_keys, config_value,
                   track>>

EventFilter(obj, evt, typ) ==
    \/ EventFilterNoMode(obj, evt, typ)
    \/ EventFilterNotKey(obj, evt, typ)
    \/ EventFilterNotWindow(obj, evt, typ)
    \/ EventFilterPress(obj, evt, typ)
    \/ EventFilterRelease(obj, evt, typ)

\* ----------------------------------------------------------------- Next
\* ========================================================== Application
\* The part of Application (app.py) that drives the mode manager at start-up
\* and the shutdown bookkeeping. MainWindow, its tabs and the NetworkManager
\* live outside the modelled files: when they report completion is an input.

\* Mutant of InitModesRegistrations: 'hint' is registered as a passthrough mode.
InitModesRegistrationsHintPassthrough ==
    << <<"normal", "normal.handle", FALSE>>,
       <<"hint", "hint.handle", TRUE>>,
       <<"insert", "insert.handle", TRUE>>,
       <<"passthrough", "passthrough.handle", TRUE>>,
       <<"command", "command.handle", TRUE>>,
       <<"prompt", "prompt.handle", TRUE>>,
       <<"yesno", "yesno.handle", FALSE>> >>

\* Mutant of InitModesRegistrations: 'hint' is registered twice, 'yesno' never.
InitModesRegistrationsHintTwice ==
    << <<"normal", "normal.handle", FALSE>>,
       <<"hint", "hint.handle", FALSE>>,
       <<"insert", "insert.handle", TRUE>>,
       <<"passthrough", "passthrough.handle", TRUE>>,
       <<"command", "command.handle", TRUE>>,
       <<"prompt", "prompt.handle", TRUE>>,
       <<"hint", "yesno.handle", FALSE>> >>

\* The register calls of _init_modes, in order: mode, handler, passthrough.
InitModesRegistrations ==
    << <<"normal", "normal.handle", FALSE>>,
       <<"hint", "hint.handle", FALSE>>,
       <<"insert", "insert.handle", TRUE>>,
       <<"passthrough", "passthrough.handle", TRUE>>,
       <<"command", "command.handle", TRUE>>,
       <<"prompt", "prompt.handle", TRUE>>,
       <<"yesno", "yesno.handle", FALSE>> >>

\* The seven modes of the application.
AppModes == {"normal", "hint", "insert", "passthrough", "command", "prompt", "yesno"}

\* The shutdown bookkeeping is left alone.
ShutdownIdle ==
    UNCHANGED <<connected, _quit_status, _shutting_down, tabs_pending, nm_pending,
                quit_calls, shutdown_runs>>

\* ------------------------------------------------------------- start-up
\* The positions of __init__: after the k-th register call of _init_modes
\* (k = 0 is the new ModeManager), then after self.cookiejar,
\* self.networkmanager and self.mainwindow are set, after installEventFilter,
\* after _connect_signals, after modeman.enter('normal', 'init'), and at its
\* end.
PcRegistered == Len(InitModesRegistrations)
PcCookieJar == PcRegistered + 1
PcNetworkManager == PcRegistered + 2
PcMainWindow == PcRegistered + 3
PcInstalled == PcRegistered + 4
PcConnected == PcRegistered + 5
PcEntered == PcRegistered + 6
PcDone == PcRegistered + 7

\* One register call of _init_modes.
InitModes ==
    /\ app_pc < PcRegistered
    /\ LET r == InitModesRegistrations[app_pc + 1] IN
       /\ Register(r[1], r[2], r[3])
       /\ registrations' = Append(registrations, r[1])
    /\ app_pc' = app_pc + 1
    /\ last_app' = AppCall("_init_modes", "-", "-", 0, FALSE)
    /\ UNCHANGED event_filter
    /\ ShutdownIdle

\* self.cookiejar = CookieJar(self), self.networkmanager = NetworkManager(...)
\* and self.mainwindow = MainWindow(), one assignment a step.
InitObjects ==
    /\ app_pc >= PcRegistered
    /\ app_pc < PcMainWindow
    /\ app_pc' = app_pc + 1
    /\ last_app' = AppCall("__init__", "objects", "-", 0, FALSE)
    /\ UNCHANGED <<vars, registrations, event_filter>>
    /\ ShutdownIdle

\* self.installEventFilter(self.modeman)
InstallEventFilter ==
    /\ app_pc = PcMainWindow
    /\ app_pc' = PcInstalled
    /\ event_filter' = "modeman"
    /\ last_app' = AppCall("installEventFilter", "-", "-", 0, FALSE)
    /\ UNCHANGED <<vars, registrations>>
    /\ ShutdownIdle

\* self._connect_signals(): self.lastWindowClosed.connect(self.shutdown)
ConnectSignals ==
    /\ app_pc = PcInstalled
    /\ app_pc' = PcConnected
    /\ connected' = TRUE
    /\ last_app' = AppCall("_connect_signals", "-", "-", 0, FALSE)
    /\ UNCHANGED <<vars, registrations, event_filter, _quit_status, _shutting_down,
                   tabs_pending, nm_pending, quit_calls, shutdown_runs>>

\* ModeManager.enter(mode, reason) of keyinput.modeman, as the specification
\* describes enter: the reason is for the log only.
ModemanEnter(m, reason) == Enter(m)

\* self.modeman.enter('normal', 'init')
EnterNormal ==
    /\ app_pc = PcConnected
    /\ app_pc' = PcEntered
    /\ ModemanEnter("normal", "init")
    /\ last_app' = AppCall("modeman.enter", "normal", "-", 0, FALSE)
    /\ UNCHANGED <<registrations, event_filter>>
    /\ ShutdownIdle

\* The rest of __init__: the main window is shown.
InitDone ==
    /\ app_pc = PcEntered
    /\ app_pc' = PcDone
    /\ last_app' = AppCall("__init__", "done", "-", 0, FALSE)
    /\ UNCHANGED <<vars, registrations, event_filter>>
    /\ ShutdownIdle

\* ------------------------------------------------------------- shutdown
\* Mutant of AllTrue: the crash entry is not looked at.
AllButCrash(qs) == \A k \in DOMAIN qs \ {"crash"} : qs[k]

\* all(self._quit_status.values())
AllTrue(qs) == \A k \in DOMAIN qs : qs[k]

\* _maybe_quit(sender): self._quit_status[sender] = True
MaybeQuitStatus(qs, sender) == [qs EXCEPT ![sender] = TRUE]

\* Mutant of MaybeQuitQuits: all() is evaluated before the sender's entry is set.
MaybeQuitQuitsStale(qs, sender) == IF AllTrue(qs) THEN 1 ELSE 0

\* _maybe_quit(sender): the number of quit() calls it makes.
MaybeQuitQuits(qs, sender) == IF AllTrue(MaybeQuitStatus(qs, sender)) THEN 1 ELSE 0

\* Mutant of AlreadyShuttingDown: the flag is not looked at.
AlreadyShuttingDownNever == FALSE

\* if self._shutting_down: return
AlreadyShuttingDown == _shutting_down

\* self.cookiejar.save is read outside the try blocks of shutdown(); the
\* attribute does not exist before __init__ has set it: AttributeError.
ShutdownRaises == app_pc < PcCookieJar

\* self.mainwindow.tabs can be reached: self.mainwindow is set.
HasTabs == app_pc >= PcMainWindow

\* self.networkmanager is set.
HasNetworkManager == app_pc >= PcNetworkManager

\* One call of shutdown(): how it ends and what it leaves behind. tabs_sync:
\* tabs.shutdown() emits shutdown_complete before it returns.
ShutdownCall(tabs_sync) ==
    IF AlreadyShuttingDown
    THEN [outcome |-> "early", shutting_down |-> _shutting_down,
          status |-> _quit_status, quits |-> 0,
          tabs_pending |-> tabs_pending, nm_pending |-> nm_pending,
          runs |-> shutdown_runs]
    ELSE IF ShutdownRaises
    THEN [outcome |-> "raised", shutting_down |-> TRUE,
          status |-> _quit_status, quits |-> 0,
          tabs_pending |-> tabs_pending, nm_pending |-> nm_pending,
          runs |-> shutdown_runs]
    ELSE
      LET tabs_now == ~HasTabs \/ tabs_sync
          qs1 == IF tabs_now THEN MaybeQuitStatus(_quit_status, "tabs")
                 ELSE _quit_status
          q1 == IF tabs_now THEN MaybeQuitQuits(_quit_status, "tabs") ELSE 0
          qs2 == IF HasNetworkManager THEN qs1
                 ELSE MaybeQuitStatus(qs1, "networkmanager")
          q2 == IF HasNetworkManager THEN 0
                ELSE MaybeQuitQuits(qs1, "networkmanager")
          qs3 == MaybeQuitStatus(qs2, "main")
          q3 == MaybeQuitQuits(qs2, "main")
      IN [outcome |-> "body", shutting_down |-> TRUE,
          status |-> qs3, quits |-> q1 + q2 + q3,
          tabs_pending |-> HasTabs /\ ~tabs_sync, nm_pending |-> HasNetworkManager,
          runs |-> [saved |-> shutdown_runs.saved + 1,
                    tabs |-> shutdown_runs.tabs + (IF HasTabs THEN 1 ELSE 0),
                    networkmanager |-> shutdown_runs.networkmanager
                                          + (IF HasNetworkManager THEN 1 ELSE 0)]]

\* The start-up position and the mode manager are left alone.
StartupIdle == UNCHANGED <<vars, app_pc, registrations, event_filter>>

\* shutdown() called by lastWindowClosed, by tabs.quit or by restart().
ShutdownSlot(caller, tabs_sync) ==
    /\ app_pc >= PcConnected
    /\ caller = "lastWindowClosed" => connected
    /\ LET c == ShutdownCall(tabs_sync) IN
       /\ _shutting_down' = c.shutting_down
       /\ _quit_status' = c.status
       /\ tabs_pending' = c.tabs_pending
       /\ nm_pending' = c.nm_pending
       /\ shutdown_runs' = c.runs
       /\ quit_calls' = quit_calls + c.quits
       /\ last_app' = AppCall("shutdown", caller, c.outcome, c.quits, FALSE)
    /\ UNCHANGED connected
    /\ StartupIdle

\* _exception_hook for an exception that is no Exception subclass (or
\* BdbQuit): shutdown(), and quit() when shutdown() raises.
ExceptionHookInterrupt(tabs_sync) ==
    /\ LET c == ShutdownCall(tabs_sync) IN
       /\ _shutting_down' = c.shutting_down
       /\ _quit_status' = c.status
       /\ tabs_pending' = c.tabs_pending
       /\ nm_pending' = c.nm_pending
       /\ shutdown_runs' = c.runs
       /\ quit_calls' = quit_calls + c.quits + (IF c.outcome = "raised" THEN 1 ELSE 0)
       /\ last_app' = AppCall("_exception_hook", "interrupt", c.outcome, c.quits,
                              c.outcome = "raised")
    /\ UNCHANGED connected
    /\ StartupIdle

\* _exception_hook for an Exception: the crash entry is set to False and
\* lastWindowClosed is disconnected from shutdown before the crash dialog runs.
ExceptionHookCrash ==
    /\ _quit_status' = [_quit_status EXCEPT !["crash"] = FALSE]
    /\ connected' = FALSE
    /\ last_app' = AppCall("_exception_hook", "exception", "-", 0, FALSE)
    /\ UNCHANGED <<_shutting_down, tabs_pending, nm_pending, quit_calls, shutdown_runs>>
    /\ StartupIdle

\* _maybe_quit(sender) as the slot of a completion signal.
MaybeQuit(sender) ==
    /\ _quit_status' = MaybeQuitStatus(_quit_status, sender)
    /\ quit_calls' = quit_calls + MaybeQuitQuits(_quit_status, sender)
    /\ last_app' = AppCall("_maybe_quit", sender, "-",
                           MaybeQuitQuits(_quit_status, sender), FALSE)
    /\ UNCHANGED <<connected, _shutting_down, shutdown_runs>>
    /\ StartupIdle

\* tabs.shutdown_complete is emitted.
TabsShutdownComplete ==
    /\ tabs_pending
    /\ tabs_pending' = FALSE
    /\ MaybeQuit("tabs")
    /\ UNCHANGED nm_pending

\* networkmanager.destroyed is emitted.
NetworkManagerDestroyed ==
    /\ nm_pending
    /\ nm_pending' = FALSE
    /\ MaybeQuit("networkmanager")
    /\ UNCHANGED tabs_pending

\* ------------------------------------------------------------------ Next
Next ==
    \/ \E m \in Modes, h \in HandlerValues, pt \in BOOLEAN : Register(m, h, pt) /\ AppIdle
    \/ \E m \in Modes : Enter(m) /\ AppIdle
    \/ \E m \in Modes : Leave(m) /\ AppIdle
    \/ LeaveCurrentMode /\ AppIdle
    \/ \E m \in Modes : MaybeLeave(m) /\ AppIdle
    \/ \E s \in Sections, o \in Options, b \in BOOLEAN : OnConfigChanged(s, o, b) /\ AppIdle
    \/ \E obj \in Objects, evt \in Events, typ \in EventTypes :
          EventFilterNoMode(obj, evt, typ) /\ AppIdle
    \/ \E obj \in Objects, evt \in Events, typ \in EventTypes :
          EventFilterNotKey(obj, evt, typ) /\ AppIdle
    \/ \E obj \in Objects, evt \in Events, typ \in EventTypes :
          EventFilterNotWindow(obj, evt, typ) /\ AppIdle
    \/ \E obj \in Objects, evt \in Events, typ \in EventTypes :
          EventFilterPress(obj, evt, typ) /\ AppIdle
    \/ \E obj \in Objects, evt \in Events, typ \in EventTypes :
          EventFilterRelease(obj, evt, typ) /\ AppIdle

\* A ModeManager driven directly, without an Application.
Spec == Init /\ [][Next]_allvars

\* The same program, with the key history recorded.
SpecPairing == InitPairing /\ [][Next]_allvars

\* The start-up of the Application.
Startup ==
    \/ InitModes
    \/ InitObjects
    \/ InstallEventFilter
    \/ ConnectSignals
    \/ EnterNormal
    \/ InitDone

\* The Application from its construction on: start-up, shutdown and the
\* exception hook, with no key events.
NextApp ==
    \/ Startup
    \/ \E caller \in {"lastWindowClosed", "tabs.quit", "restart"},
          tabs_sync \in BOOLEAN : ShutdownSlot(caller, tabs_sync)
    \/ \E tabs_sync \in BOOLEAN : ExceptionHookInterrupt(tabs_sync)
    \/ ExceptionHookCrash
    \/ TabsShutdownComplete
    \/ NetworkManagerDestroyed

SpecApp == Init /\ [][NextApp]_allvars

\* Event objects delivered to the running application.
AppEvents == {"e1"}

\* The running application: a command or a widget changes the mode, or the
\* forward_unbound_keys option is changed.
ModeChange ==
    /\ app_pc = PcDone
    /\ \/ \E m \in AppModes : Enter(m)
       \/ \E m \in AppModes : Leave(m)
       \/ LeaveCurrentMode
       \/ \E b \in BOOLEAN : OnConfigChanged("general", "forward_unbound_keys", b)
    /\ Len(_mode_stack') <= MaxAppStack
    /\ AppIdle

\* The window system delivers an event to the installed event filter.
DeliverEvent ==
    /\ event_filter = "modeman"
    /\ \E obj \in Objects, evt \in AppEvents, typ \in EventTypes :
          EventFilter(obj, evt, typ)
    /\ Len(_mode_stack') <= MaxAppStack
    /\ AppIdle

\* The Application from its construction on: start-up, then key events and
\* mode changes, with no shutdown.
NextKeys ==
    \/ Startup
    \/ ModeChange
    \/ DeliverEvent

SpecKeys == Init /\ [][NextKeys]_allvars

\* ================================================================ claims

\* C1: whenever enter(m) was called for a mode m that has a registry entry, it
\* returned and the current mode (the last element of the mode stack) is m.
C1_EnterMakesCurrent ==
    (last.op = "enter" /\ HasHandler(last.mode))
        => (last.exc = Returned /\ mode = last.mode /\ _mode_stack # <<>>)

\* C1 witness: enter pushed a mode on top of another one.
C1_Witness ==
    /\ last.op = "enter"
    /\ last.exc = Returned
    /\ emitted = << <<"entered", last.mode>> >>
    /\ Len(_mode_stack) >= 2
    /\ mode = last.mode

\* C2: enter(m) while m is the current mode returns without changing the mode
\* stack and without emitting a signal.
C2_EnterTopIsNoOp ==
    [][(last'.op = "enter" /\ mode = last'.mode)
          => (last'.exc = Returned /\ _mode_stack' = _mode_stack /\ emitted' = <<>>)]_vars

\* C2 witness: enter was called for the mode on top of a stack of two, and
\* nothing was emitted.
C2_Witness ==
    /\ last.op = "enter"
    /\ last.exc = Returned
    /\ emitted = <<>>
    /\ mode = last.mode
    /\ Len(_mode_stack) = 2

\* C3: enter(m) for a mode without registry entry raises the no-handler error,
\* leaves the mode stack, the registry, the passthrough modes and the pending
\* releases unchanged and emits nothing.
C3_EnterUnknownFails ==
    [][(last'.op = "enter" /\ last'.mode \notin DOMAIN _handlers)
          => /\ last'.exc = NoHandlerError
             /\ UNCHANGED <<_mode_stack, _handlers, passthrough, _releaseevents_to_pass>>
             /\ emitted' = <<>>]_vars

\* C3 witness: enter failed for an unregistered mode while another mode is
\* active and a release is pending.
C3_Witness ==
    /\ last.op = "enter"
    /\ last.exc = NoHandlerError
    /\ ~HasHandler(last.mode)
    /\ _mode_stack # <<>>
    /\ _releaseevents_to_pass # <<>>

\* C4: leave(m) for a mode that is nowhere in the mode stack raises the
\* not-on-stack error, leaves the mode stack unchanged and emits nothing.
C4_LeaveAbsentFails ==
    [][(last'.op = "leave" /\ ~InList(last'.mode, _mode_stack))
          => /\ last'.exc = NotOnStackError
             /\ _mode_stack' = _mode_stack
             /\ emitted' = <<>>]_vars

\* C4 witness: leave failed for a registered mode while another mode is active.
C4_Witness ==
    /\ last.op = "leave"
    /\ last.exc = NotOnStackError
    /\ HasHandler(last.mode)
    /\ _mode_stack # <<>>
    /\ ~InList(last.mode, _mode_stack)

\* C5: leave_current_mode() while the current mode is "normal" raises the
\* cannot-leave-normal error, leaves the mode stack unchanged and emits nothing.
C5_LeaveCurrentNormalFails ==
    [][(last'.op = "leave_current_mode" /\ mode = "normal")
          => /\ last'.exc = CantLeaveNormalError
             /\ _mode_stack' = _mode_stack
             /\ emitted' = <<>>]_vars

\* C5 witness: leave_current_mode failed with "normal" on top of another mode.
C5_Witness ==
    /\ last.op = "leave_current_mode"
    /\ last.exc = CantLeaveNormalError
    /\ mode = "normal"
    /\ Len(_mode_stack) >= 2

\* A key press that eventFilter decided: a mode was active and obj is a QWindow.
DecidedPress ==
    /\ last.op = "eventFilter"
    /\ last.typ = KeyPress
    /\ last.obj = QWindow
    /\ last.mode # None

\* C6: for every decided key press, the filter result is
\* handled \/ ~(self.mode in passthrough \/ forward_unbound_keys), with self.mode,
\* the passthrough modes and the setting as read when the decision is made
\* (after the handler returned), and handled false when the handler is None.
C6_ConsumeTruthTable ==
    DecidedPress =>
        /\ last.ret = (last.handled \/ ~(mode \in passthrough \/ _forward_unbound_keys))
        /\ (_handlers[last.mode] = None => (~last.handled /\ last.invoked = "-"))
        /\ (_handlers[last.mode] # None => last.invoked = _handlers[last.mode])

\* C6 witness: an unhandled press in a passthrough mode is passed on although
\* unbound keys are not forwarded.
C6_Witness ==
    /\ DecidedPress
    /\ ~last.handled
    /\ last.invoked # "-"
    /\ mode \in passthrough
    /\ ~_forward_unbound_keys
    /\ ~last.ret

\* C7 (as claimed): a key release delivered for a window is passed on exactly
\* when the press that took the key down was passed on, whatever happened to the
\* mode stack or the setting in between.
C7_ReleaseFollowsPress ==
    [][(/\ last'.op = "eventFilter"
        /\ last'.typ = KeyRelease
        /\ last'.obj = QWindow
        /\ keyHist[last'.evt] # "up")
          => ((~last'.ret) <=> (keyHist[last'.evt] = "fwd"))]_vars

\* A key release that eventFilter decided: a mode was active and obj is a QWindow.
DecidedRelease ==
    /\ last.op = "eventFilter"
    /\ last.typ = KeyRelease
    /\ last.obj = QWindow
    /\ last.mode # None

\* C8: a decided release of an event e is passed on exactly when a press of e
\* was recorded as passed on since the last decided release of e (however many
\* such presses there were), it leaves no occurrence of e pending, and a release
\* of an event that is not pending is filtered.
C8_OneReleasePerForwardedPress ==
    [][DecidedRelease' =>
          /\ (~last'.ret) <=> fwdSince[last'.evt]
          /\ ~InList(last'.evt, _releaseevents_to_pass')
          /\ ~InList(last'.evt, _releaseevents_to_pass) => last'.ret]_vars

\* C8 witness: a release was passed on and removed its event while a press of
\* another event stays pending.
C8_Witness ==
    /\ DecidedRelease
    /\ ~last.ret
    /\ ~InList(last.evt, _releaseevents_to_pass)
    /\ _releaseevents_to_pass # <<>>

\* C9: while the mode stack is empty, eventFilter passes every event on, calls
\* no handler, emits nothing and leaves the pending releases and the stack alone.
C9_NoModeForwardsAll ==
    [][(last'.op = "eventFilter" /\ _mode_stack = <<>>)
          => /\ ~last'.ret
             /\ last'.invoked = "-"
             /\ ~last'.handled
             /\ emitted' = <<>>
             /\ UNCHANGED <<_releaseevents_to_pass, _mode_stack>>]_vars

\* C9 witness: with no mode active, a release for a window was passed on and its
\* event is still pending.
C9_Witness ==
    /\ last.op = "eventFilter"
    /\ last.mode = None
    /\ _mode_stack = <<>>
    /\ last.typ = KeyRelease
    /\ last.obj = QWindow
    /\ ~last.ret
    /\ InList(last.evt, _releaseevents_to_pass)

\* C10: an event that is no key press or release, or whose obj is no QWindow, is
\* passed on: no handler is called, nothing is emitted, and the pending releases,
\* the mode stack, the registry and the setting are unchanged.
C10_ForeignEventsUntouched ==
    [][(/\ last'.op = "eventFilter"
        /\ (last'.typ \notin {KeyPress, KeyRelease} \/ last'.obj # QWindow))
          => /\ ~last'.ret
             /\ last'.invoked = "-"
             /\ ~last'.handled
             /\ emitted' = <<>>
             /\ UNCHANGED <<_releaseevents_to_pass, _mode_stack, _handlers, passthrough,
                            _forward_unbound_keys>>]_vars

\* C10 witness: with a mode active, a release for an object that is no window
\* was passed on and its event is still pending.
C10_Witness ==
    /\ last.op = "eventFilter"
    /\ last.mode # None
    /\ last.typ = KeyRelease
    /\ last.obj # QWindow
    /\ ~last.ret
    /\ InList(last.evt, _releaseevents_to_pass)

\* The last call was an enter that pushed its mode.
EnterPushed ==
    /\ last.op = "enter"
    /\ last.exc = Returned
    /\ emitted = << <<"entered", last.mode>> >>

\* How often m occurs in seq.
Count(seq, m) == Cardinality({i \in DOMAIN seq : seq[i] = m})

\* seq without its last element.
Front(seq) == SubSeq(seq, 1, Len(seq) - 1)

\* C11: enter(m) for a registered mode m that is not on the stack S appends m
\* to S, and a leave(m) that directly follows gives S back, so the current
\* mode is again the one from before the enter.
C11_EnterLeaveRoundTrip ==
    [][/\ (last'.op = "enter" /\ last'.mode \in DOMAIN _handlers
              /\ ~InList(last'.mode, _mode_stack))
          => (_mode_stack' = Append(_mode_stack, last'.mode) /\ EnterPushed')
       /\ (EnterPushed /\ Count(_mode_stack, last.mode) = 1
              /\ last'.op = "leave" /\ last'.mode = last.mode)
          => /\ last'.exc = Returned
             /\ _mode_stack' = Front(_mode_stack)
             /\ mode' = ModeOf(Front(_mode_stack))]_vars

\* C11 witness: leave(hint) gave the stack [normal] back.
C11_Witness ==
    /\ last.op = "leave"
    /\ last.mode = "hint"
    /\ last.exc = Returned
    /\ emitted = << <<"left", "hint">> >>
    /\ _mode_stack = <<"normal">>

\* C12: enter(m) for a registered mode m other than the current mode c, then
\* leave(m) directly after it, gives back the stack from before the enter, so
\* that c is the current mode again.
C12_TemporaryModeRestores ==
    [][(EnterPushed /\ last'.op = "leave" /\ last'.mode = last.mode)
          => /\ last'.exc = Returned
             /\ _mode_stack' = Front(_mode_stack)
             /\ mode' = ModeOf(Front(_mode_stack))]_vars

\* after is before without the first occurrence of m.
FirstOccurrenceRemoved(before, after, m) ==
    \E i \in DOMAIN before :
        /\ before[i] = m
        /\ \A j \in 1..(i - 1) : before[j] # m
        /\ after = SubSeq(before, 1, i - 1) \o SubSeq(before, i + 1, Len(before))

\* C13: leave(m) succeeds whenever m occurs anywhere in the stack: it removes
\* the first occurrence of m and nothing else, keeps the order of the other
\* elements, and emits exactly one 'left' carrying m.
C13_LeaveRemovesFirstOccurrence ==
    [][(last'.op = "leave" /\ InList(last'.mode, _mode_stack))
          => /\ last'.exc = Returned
             /\ FirstOccurrenceRemoved(_mode_stack, _mode_stack', last'.mode)
             /\ emitted' = << <<"left", last'.mode>> >>
             /\ UNCHANGED <<_handlers, passthrough, _releaseevents_to_pass>>]_vars

\* C13 witness: leave(m) removed the first of two occurrences of m, which was
\* not the top of the stack.
C13_Witness ==
    /\ last.op = "leave"
    /\ last.exc = Returned
    /\ InList(last.mode, _mode_stack)
    /\ Len(_mode_stack) = 2
    /\ _mode_stack[1] # last.mode

\* C14: with a current mode c other than 'normal', leave_current_mode() does
\* what leave(c) does (with no current mode, leave(None) fails and changes
\* nothing), and leave_current_mode() never takes 'normal' off the stack.
C14_LeaveCurrentIsLeaveOfCurrent ==
    [][(last'.op = "leave_current_mode")
          => /\ last'.mode = mode
             /\ (mode \notin {"normal", None})
                   => /\ last'.exc = Returned
                      /\ FirstOccurrenceRemoved(_mode_stack, _mode_stack', mode)
                      /\ emitted' = << <<"left", mode>> >>
             /\ (mode = None)
                   => /\ last'.exc = NotOnStackError
                      /\ UNCHANGED _mode_stack
                      /\ emitted' = <<>>
             /\ Count(_mode_stack', "normal") = Count(_mode_stack, "normal")
             /\ UNCHANGED <<_handlers, passthrough, _releaseevents_to_pass>>]_vars

\* C14 witness: leave_current_mode() left the current mode 'hint', whose first
\* occurrence was below a 'normal' that is still on the stack.
C14_Witness ==
    /\ last.op = "leave_current_mode"
    /\ last.mode = "hint"
    /\ last.exc = Returned
    /\ _mode_stack = <<"normal", "hint">>

\* C15: maybe_leave(m) never fails. With m not on the stack it returns, leaves
\* the stack alone and emits nothing; with m on the stack it does what
\* leave(m) does.
C15_MaybeLeaveNeverFails ==
    [][(last'.op = "maybe_leave")
          => /\ last'.exc = Returned
             /\ IF InList(last'.mode, _mode_stack)
                THEN /\ FirstOccurrenceRemoved(_mode_stack, _mode_stack', last'.mode)
                     /\ emitted' = << <<"left", last'.mode>> >>
                ELSE /\ UNCHANGED _mode_stack
                     /\ emitted' = <<>>
             /\ UNCHANGED <<_handlers, passthrough, _releaseevents_to_pass>>]_vars

\* C15 witness: maybe_leave(m) returned for a registered mode m that was not
\* on the non-empty stack.
C15_Witness ==
    /\ last.op = "maybe_leave"
    /\ last.exc = Returned
    /\ emitted = <<>>
    /\ last.mode \in DOMAIN _handlers
    /\ _mode_stack # <<>>
    /\ ~InList(last.mode, _mode_stack)

\* C16: registering a mode again replaces its entry. A key press dispatched
\* in mode m directly after register(m, h2, p2) invokes h2, and when h2 does
\* not handle the key and unbound keys are not forwarded, the key is passed on
\* exactly when p2 is true.
C16_LastRegistrationWins ==
    [][(/\ last.op = "register"
        /\ last'.op = "eventFilter" /\ last'.typ = KeyPress /\ last'.obj = QWindow
        /\ last'.mode = last.mode
        /\ mode' = last.mode)
          => /\ last'.invoked = (IF last.handler = None THEN "-" ELSE last.handler)
             /\ (~last'.handled /\ ~_forward_unbound_keys)
                   => (last'.ret = ~last.pt)]_vars

\* C17: every mode on the mode stack has an entry in the registry.
C17_StackModesRegistered ==
    \A i \in DOMAIN _mode_stack : _mode_stack[i] \in DOMAIN _handlers

\* C17 witness: a mode is on the stack while enter has just been refused for
\* a mode that is not registered.
C17_Witness ==
    /\ _mode_stack # <<>>
    /\ last.op = "enter"
    /\ last.exc = NoHandlerError
    /\ last.mode \notin DOMAIN _handlers

\* C18: the mode stack holds each mode at most once.
C18_NoDuplicates ==
    \A i, j \in DOMAIN _mode_stack : _mode_stack[i] = _mode_stack[j] => i = j

\* C19: the event filter never fails: the lookup of the current mode in the
\* registry finds an entry whenever there is a current mode, and every call of
\* eventFilter returns a boolean.
C19_DispatchNeverFails ==
    /\ mode # None => mode \in DOMAIN _handlers
    /\ last.op = "eventFilter" => (last.exc = Returned /\ last.ret \in BOOLEAN)

\* C19 witness: a key press was dispatched while some mode has no entry in the
\* registry, and the handler took a mode off the stack during the call.
C19_Witness ==
    /\ DecidedPress
    /\ DOMAIN _handlers # Modes
    /\ Len(emitted) = 2
    /\ emitted[2][1] = "left"

\* The number of key_pressed signals in a sequence of signals.
KeyPressedCount(signals) ==
    Cardinality({i \in DOMAIN signals : signals[i][1] = "key_pressed"})

\* C20: a key press the filter decides emits key_pressed exactly once, with
\* the event, before anything the handler emits, whether the key is consumed
\* or passed on; a key release emits no key_pressed and invokes no handler.
C20_KeyPressedOncePerPress ==
    /\ DecidedPress
          => /\ emitted # <<>>
             /\ emitted[1] = <<"key_pressed", last.evt>>
             /\ KeyPressedCount(emitted) = 1
    /\ (last.op = "eventFilter" /\ last.typ = KeyRelease)
          => /\ emitted = <<>>
             /\ last.invoked = "-"
             /\ ~last.handled

\* C20 witness: a consumed key press whose handler entered a mode, so that
\* key_pressed is followed by 'entered'.
C20_Witness ==
    /\ DecidedPress
    /\ last.handled
    /\ last.ret
    /\ Len(emitted) = 2
    /\ emitted[2][1] = "entered"

\* The last call was on_config_changed('general', 'forward_unbound_keys').
ForwardOptionChanged ==
    /\ last.op = "on_config_changed"
    /\ last.section = "general"
    /\ last.option = "forward_unbound_keys"

\* C22: _forward_unbound_keys holds the configuration's value at construction;
\* on_config_changed('general', 'forward_unbound_keys') sets it to the
\* configuration's current value, every other call leaves it unchanged, and a
\* key press is decided with the value it holds at that time.
C22_ForwardSettingRefresh ==
    /\ _forward_unbound_keys = config_value
    /\ [][/\ ForwardOptionChanged' => _forward_unbound_keys' = config_value'
          /\ ~ForwardOptionChanged' => UNCHANGED _forward_unbound_keys
          /\ (DecidedPress' /\ ~last'.handled /\ mode' \notin passthrough)
                => last'.ret = ~_forward_unbound_keys]_vars

\* C22 witness: after a refresh that changed the setting to true, an unhandled
\* key press in a mode that is no passthrough mode was passed on.
C22_Witness ==
    /\ DecidedPress
    /\ ~last.handled
    /\ mode \notin passthrough
    /\ mode # None
    /\ ~last.ret
    /\ _forward_unbound_keys

\* C24: with 'normal' entered first (the bottom of the stack), 'normal' stays
\* on the stack and the stack does not become empty.
C24_NormalStays ==
    [][(_mode_stack # <<>> /\ _mode_stack[1] = "normal")
          => (_mode_stack' # <<>> /\ InList("normal", _mode_stack'))]_vars

\* C25: an event is appended to _releaseevents_to_pass only by a key press of
\* it that is passed on (once for each such press, whether or not it is already
\* in the list), and it is taken out only by a decided key release of that
\* event; every other call leaves the list as it is.
C25_PendingLingers ==
    [][\A e \in Events :
          /\ Count(_releaseevents_to_pass', e) > Count(_releaseevents_to_pass, e)
                => /\ DecidedPress' /\ last'.evt = e /\ ~last'.ret
                   /\ _releaseevents_to_pass' = Append(_releaseevents_to_pass, e)
          /\ Count(_releaseevents_to_pass', e) < Count(_releaseevents_to_pass, e)
                => DecidedRelease' /\ last'.evt = e /\ ~last'.ret
          /\ (DecidedPress' /\ last'.evt = e /\ ~last'.ret)
                => _releaseevents_to_pass' = Append(_releaseevents_to_pass, e)
          /\ ~(last'.op = "eventFilter" /\ last'.typ \in {KeyPress, KeyRelease})
                => UNCHANGED _releaseevents_to_pass]_vars

\* C25 witness: an event that was passed on twice is pending twice, up to the
\* bound of the list, after a call that is no event.
C25_Witness ==
    /\ Len(_releaseevents_to_pass) = MaxPending
    /\ \E e \in Events : Count(_releaseevents_to_pass, e) >= 2
    /\ last.op \in {"enter", "leave", "register", "on_config_changed"}

\* C29: when the handler of a key press changes the mode during the call and
\* reports the key as unhandled, the key is passed on according to the mode
\* whose handler was invoked, the current mode when the event arrived.
C29_PolicyOfArrivalMode ==
    (DecidedPress /\ ~last.handled /\ Len(emitted) > 1)
        => (last.ret = ~(last.mode \in passthrough \/ _forward_unbound_keys))

\* The number of signals of a name in a sequence of signals.
SignalCount(signals, name) ==
    Cardinality({i \in DOMAIN signals : signals[i][1] = name})

\* C30: the depth of the mode stack is the number of entered signals emitted
\* minus the number of left signals emitted: the stack starts empty, every
\* call changes the depth by the entered signals minus the left signals it
\* emits, a push emits one entered with the pushed mode, a removal one left
\* with the removed mode, and a call of enter or leave that leaves the stack
\* as it is emits nothing.
C30_DepthIsEnteredMinusLeft ==
    /\ (_mode_stack = <<>> /\ emitted = <<>>)
    /\ [][/\ Len(_mode_stack') + SignalCount(emitted', "left")
               = Len(_mode_stack) + SignalCount(emitted', "entered")
          /\ last'.op = "enter"
                => emitted' = (IF _mode_stack' = _mode_stack THEN <<>>
                               ELSE << <<"entered", mode'>> >>)
          /\ last'.op \in {"leave", "maybe_leave", "leave_current_mode"}
                => emitted' = (IF _mode_stack' = _mode_stack THEN <<>>
                               ELSE << <<"left", last'.mode>> >>)]_vars

\* C30 witness: a key press whose handler took a mode off the stack: one left
\* signal, and the stack one shorter.
C30_Witness ==
    /\ DecidedPress
    /\ SignalCount(emitted, "left") = 1
    /\ Len(_mode_stack) = 1

\* C21: with the registrations of _init_modes, a key press that the handler
\* does not handle is passed on when the current mode is insert, passthrough,
\* command or prompt, whatever the forward_unbound_keys setting, and is
\* filtered when the current mode is normal, hint or yesno and the setting is
\* false. The current mode is self.mode as the decision reads it.
C21_AppPassthroughModes ==
    (DecidedPress /\ ~last.handled /\ app_pc = PcDone)
        => /\ mode \in {"insert", "passthrough", "command", "prompt"} => ~last.ret
           /\ (mode \in {"normal", "hint", "yesno"} /\ ~_forward_unbound_keys)
                 => last.ret

\* C21 witness: an unhandled key press in prompt mode, entered on top of hint
\* mode, was passed on with forward_unbound_keys false.
C21_Witness ==
    /\ DecidedPress
    /\ ~last.handled
    /\ app_pc = PcDone
    /\ _mode_stack = <<"hint", "prompt">>
    /\ last.mode = "prompt"
    /\ ~_forward_unbound_keys
    /\ ~last.ret

\* C23: during start-up each of the seven modes is registered exactly once,
\* all of them before the mode manager is installed as event filter and before
\* the first enter, and 'normal' is the first mode on the stack, which was
\* empty until then.
C23_RegisteredBeforeInstallAndEnter ==
    /\ \A m \in AppModes : Count(registrations, m) <= 1
    /\ (event_filter # None \/ last.op = "enter" \/ _mode_stack # <<>>)
          => /\ \A m \in AppModes : Count(registrations, m) = 1
             /\ Len(registrations) = Cardinality(AppModes)
             /\ DOMAIN _handlers = AppModes
    /\ last.op = "enter" => (last.mode = "normal" /\ last.exc = Returned)
    /\ _mode_stack \in {<<>>, <<"normal">>}

\* C23 witness: __init__ has come to its end with the event filter installed
\* and 'normal' entered.
C23_Witness ==
    /\ app_pc = PcDone
    /\ event_filter = "modeman"
    /\ _mode_stack = <<"normal">>
    /\ emitted = << <<"entered", "normal">> >>

\* C26: a call of shutdown() with _shutting_down already set returns at once:
\* nothing is saved, neither the tabs nor the network manager are shut down
\* again, _maybe_quit is not called; the body runs in a call that finds the
\* flag unset only.
C26_ShutdownRunsOnce ==
    [][/\ (last_app'.shutdown # "-" /\ _shutting_down)
             => /\ last_app'.shutdown = "early"
                /\ last_app'.mq_quits = 0
                /\ UNCHANGED <<shutdown_runs, _quit_status, tabs_pending, nm_pending,
                               quit_calls, _shutting_down>>
       /\ shutdown_runs' # shutdown_runs
             => (~_shutting_down /\ _shutting_down'
                   /\ shutdown_runs.saved = 0 /\ shutdown_runs'.saved = 1)]_allvars

\* C26 witness: lastWindowClosed called shutdown() a second time, after its
\* body had run, and the call returned at once.
C26_Witness ==
    /\ last_app.op = "shutdown"
    /\ last_app.arg = "lastWindowClosed"
    /\ last_app.shutdown = "early"
    /\ shutdown_runs.saved = 1
    /\ tabs_pending

\* C27: _maybe_quit calls quit() only with all four entries of _quit_status
\* true; the crash entry, once false, stays false, and from then on no call of
\* _maybe_quit calls quit().
C27_QuitNeedsAllFour ==
    [][/\ last_app'.mq_quits > 0
             => \A k \in {"crash", "tabs", "networkmanager", "main"} : _quit_status'[k]
       /\ ~_quit_status["crash"]
             => (~_quit_status'["crash"] /\ last_app'.mq_quits = 0)
       /\ quit_calls' = quit_calls + last_app'.mq_quits
                           + (IF last_app'.hook_quit THEN 1 ELSE 0)]_allvars

\* C27 witness: after _exception_hook set the crash entry to false, the tabs,
\* the network manager and shutdown itself have all reported, and quit() was
\* not called.
C27_Witness ==
    /\ ~_quit_status["crash"]
    /\ _quit_status["tabs"]
    /\ _quit_status["networkmanager"]
    /\ _quit_status["main"]
    /\ quit_calls = 0
    /\ last_app.op = "_maybe_quit"

\* C28: with the crash entry still true, quit() has been called once the
\* tabs, the network manager and shutdown's final _maybe_quit('main') have
\* all reported; and no quit() is called, outside _exception_hook's own, before
\* shutdown() has reached _maybe_quit('main').
C28_QuitAfterBothReports ==
    /\ []((/\ _quit_status["crash"] /\ _quit_status["tabs"]
           /\ _quit_status["networkmanager"] /\ _quit_status["main"])
             => quit_calls >= 1)
    /\ [][(quit_calls' > quit_calls /\ ~last_app'.hook_quit)
             => (_shutting_down' /\ _quit_status'["main"]
                   /\ _quit_status'["tabs"] /\ _quit_status'["networkmanager"])]_allvars

\* C28 witness: the network manager's destroyed signal was the last report
\* after shutdown(), and quit() was called in its _maybe_quit.
C28_Witness ==
    /\ last_app.op = "_maybe_quit"
    /\ last_app.arg = "networkmanager"
    /\ last_app.mq_quits = 1
    /\ quit_calls = 1
    /\ _quit_status["crash"]
    /\ _shutting_down

====
